---- MODULE Spec2Model ----
(***************************************************************************)
(* RetinaFace custom output parser for DeepStream                          *)
(* (retinaface/nvdsinfer_customparser/nvdsinfer_custom_retinaface.cpp).    *)
(*                                                                         *)
(* Numbers.  The program computes in 32-bit floats.  The model uses        *)
(* fixed point:                                                            *)
(*   - pixel coordinates are integers in tenths of a pixel (Deci = 10);    *)
(*   - probabilities and thresholds are integers in thousandths            *)
(*     (Milli = 1000);                                                     *)
(*   - expf is a table over the logits and deltas the inputs are drawn     *)
(*     from (softmaxFace, expFifth), all in the range where expf is finite *)
(*     and non-zero;                                                       *)
(*   - a float quotient is kept as the pair (numerator, denominator), so   *)
(*     that 0/0 (NaN: every comparison false) and x/0 (infinity) behave as *)
(*     IEEE-754 makes them.                                                *)
(***************************************************************************)
EXTENDS Integers, Sequences, FiniteSets, TLC

VARIABLES
    \* ---- applyNMS called on its own (SpecNMS)
    detections,      \* the input list of applyNMS
    nmsDetections,   \* what applyNMS(detections) returned
    nmsAgain,        \* what applyNMS(nmsDetections) returned
    \* ---- shared inputs
    nmsThreshold,    \* IoU threshold, thousandths
    confThreshold,   \* per_class_threshold[0], thousandths
    inputWidth,      \* networkInfo.width
    inputHeight,     \* networkInfo.height
    locBuf,          \* the loc layer's buffer, a sequence of floats
    landmBuf,        \* the landm layer's buffer
    confBuf,         \* the conf layer's buffer
    \* ---- decodeRetinaFace called on its own (SpecDecode, SpecGrid)
    decoded,         \* what decodeRetinaFace returned
    visited,         \* number of anchors the decoder walked
    \* ---- NvDsInferParseCustomRetinaFace (SpecParse)
    numLayers,       \* outputLayersInfo.size()
    locNumDims,      \* locLayer.inferDims.numDims
    locD0,           \* locLayer.inferDims.d[0]
    batchSize,
    objectList,      \* the caller's vector, appended to
    objectList0,     \* objectList at call entry
    attrList,
    attrList0,       \* attrList at call entry
    objBatch,        \* history: batchIdx of every object the call appended
    oobRead,         \* history: the call read a buffer at or past its length
    ret,             \* return value
    pc               \* position of the caller

nmsVars    == <<detections, nmsDetections, nmsAgain>>
inputVars  == <<nmsThreshold, confThreshold, inputWidth, inputHeight,
                locBuf, landmBuf, confBuf>>
decodeVars == <<decoded, visited>>
callVars   == <<numLayers, locNumDims, locD0, batchSize, objectList0, attrList0>>
outVars    == <<objectList, attrList, objBatch, oobRead, ret>>
vars == <<nmsVars, inputVars, decodeVars, callVars, outVars, pc>>

Milli == 1000
Deci  == 10

Max(a, b) == IF a >= b THEN a ELSE b
Min(a, b) == IF a <= b THEN a ELSE b

(***************************************************************************)
(* struct RetinaFaceDetection                                              *)
(***************************************************************************)
RetinaFaceDetection(x1, y1, x2, y2, confidence, landmarks) ==
    [x1 |-> x1, y1 |-> y1, x2 |-> x2, y2 |-> y2,
     confidence |-> confidence, landmarks |-> landmarks]

NoLandmarks == [m \in 1..10 |-> 0]

(***************************************************************************)
(* applyNMS                                                                *)
(***************************************************************************)
\* lines 50-55: the overlap rectangle, each side clamped at 0
intersectionOf(a, b) ==
    Max(0, Min(a.x2, b.x2) - Max(a.x1, b.x1))
  * Max(0, Min(a.y2, b.y2) - Max(a.y1, b.y1))

\* lines 56-57
areaOf(a) == (a.x2 - a.x1) * (a.y2 - a.y1)

\* line 58: float iou = intersection / (areaA + areaB - intersection), kept
\* as numerator and denominator
iouOf(a, b) ==
    [num |-> intersectionOf(a, b),
     den |-> areaOf(a) + areaOf(b) - intersectionOf(a, b)]

\* line 60: iou > nmsThreshold, on floats.  den = 0 and num = 0 is NaN (false);
\* den = 0 and num > 0 is +infinity (true).
iouExceeds(a, b, thr) ==
    LET q == iouOf(a, b)
    IN  IF q.den > 0 THEN q.num * Milli > thr * q.den
        ELSE IF q.den < 0 THEN q.num * Milli < thr * q.den
        ELSE q.num > 0

RemoveAt(s, i) == SubSeq(s, 1, i - 1) \o SubSeq(s, i + 1, Len(s))

\* lines 32-35: std::sort with the comparator a.confidence > b.confidence.
\* std::sort orders the list by descending confidence and leaves the relative
\* order of elements with equal confidence unspecified: every descending
\* arrangement is an outcome.
RECURSIVE SortOutcomes(_)
SortOutcomes(s) ==
    IF s = <<>> THEN {<<>>}
    ELSE LET first == {i \in 1..Len(s) :
                         \A j \in 1..Len(s) : s[j].confidence <= s[i].confidence}
         IN  UNION {{<<s[i]>> \o t : t \in SortOutcomes(RemoveAt(s, i))} : i \in first}

\* lines 37-63: the greedy pass over the sorted list
RECURSIVE nmsLoop(_, _, _, _, _)
nmsLoop(sortedDetections, thr, i, suppressed, kept) ==
    IF i > Len(sortedDetections) THEN kept
    ELSE IF i \in suppressed
         THEN nmsLoop(sortedDetections, thr, i + 1, suppressed, kept)
    ELSE LET hit == {j \in (i + 1)..Len(sortedDetections) :
                        /\ j \notin suppressed
                        /\ iouExceeds(sortedDetections[i], sortedDetections[j], thr)}
         IN  nmsLoop(sortedDetections, thr, i + 1, suppressed \cup hit,
                     Append(kept, sortedDetections[i]))

\* the greedy pass on the list as given, the sort left out
applyNMSUnsorted(dets, thr) == {nmsLoop(dets, thr, 1, {}, <<>>)}

\* lines 28-66: the lists one call of applyNMS can return
applyNMS(dets, thr) ==
    {nmsLoop(s, thr, 1, {}, <<>>) : s \in SortOutcomes(dets)}

(***************************************************************************)
(* decodeRetinaFace                                                        *)
(***************************************************************************)
\* lines 19-23 (1-based here: scaleIdx 0..2 of the code is 1..3)
kStrideAnchors ==
    << [stride |-> 8,  baseAnchor |-> 16],
       [stride |-> 16, baseAnchor |-> 64],
       [stride |-> 32, baseAnchor |-> 256] >>

\* line 97
anchorCount == 2

\* lines 92-94: integer division
feat_w(scaleIdx, inputW) == inputW \div kStrideAnchors[scaleIdx].stride
feat_h(scaleIdx, inputH) == inputH \div kStrideAnchors[scaleIdx].stride
featSize(scaleIdx, inputW, inputH) == feat_w(scaleIdx, inputW) * feat_h(scaleIdx, inputH)

\* lines 81-83 and 209-211: the offsets at the start of level scaleIdx
RECURSIVE locOffset(_, _, _)
locOffset(scaleIdx, inputW, inputH) ==
    IF scaleIdx = 1 THEN 0
    ELSE locOffset(scaleIdx - 1, inputW, inputH)
         + (4 * anchorCount) * featSize(scaleIdx - 1, inputW, inputH)

RECURSIVE landmOffset(_, _, _)
landmOffset(scaleIdx, inputW, inputH) ==
    IF scaleIdx = 1 THEN 0
    ELSE landmOffset(scaleIdx - 1, inputW, inputH)
         + (10 * anchorCount) * featSize(scaleIdx - 1, inputW, inputH)

RECURSIVE confOffset(_, _, _)
confOffset(scaleIdx, inputW, inputH) ==
    IF scaleIdx = 1 THEN 0
    ELSE confOffset(scaleIdx - 1, inputW, inputH)
         + (2 * anchorCount) * featSize(scaleIdx - 1, inputW, inputH)

\* lines 110-116: the iterations of the y, x, k loops of one level, in order,
\* each with the buffer indices it uses (lines 123, 141, 177)
levelWalk(scaleIdx, inputW, inputH) ==
    [i \in 1..(feat_h(scaleIdx, inputH) * feat_w(scaleIdx, inputW) * anchorCount) |->
        LET y == ((i - 1) \div anchorCount) \div feat_w(scaleIdx, inputW)
            x == ((i - 1) \div anchorCount) % feat_w(scaleIdx, inputW)
            k == (i - 1) % anchorCount
            cellIndex == y * feat_w(scaleIdx, inputW) + x
        IN  [scaleIdx |-> scaleIdx, x |-> x, y |-> y, k |-> k,
             confIdx  |-> confOffset(scaleIdx, inputW, inputH)
                          + (2 * anchorCount) * cellIndex + k * 2,
             locIdx   |-> locOffset(scaleIdx, inputW, inputH)
                          + (4 * anchorCount) * cellIndex + k * 4,
             landmIdx |-> landmOffset(scaleIdx, inputW, inputH)
                          + (10 * anchorCount) * cellIndex + k * 10]]

\* line 86: the three levels in turn
walk(inputW, inputH) ==
    levelWalk(1, inputW, inputH) \o levelWalk(2, inputW, inputH)
                                 \o levelWalk(3, inputW, inputH)

\* A const float* into a layer buffer: the buffer, the element the pointer is
\* at, and what a read at or past the end of the buffer yields (undefined
\* behaviour: junk[1] at even distances past the base, junk[2] at odd ones).
Pointer(buf, off, junk) == [buf |-> buf, off |-> off, junk |-> junk]

Read(p, i) ==
    IF p.off + i < Len(p.buf) THEN p.buf[p.off + i + 1] ELSE p.junk[(i % 2) + 1]

ReadPastEnd(p, i) == p.off + i >= Len(p.buf)

\* line 131: exp(c2) / (exp(c1) + exp(c2)) in thousandths, tabulated on c2 - c1
softmaxFace(c1, c2) ==
    CASE c2 - c1 = -2 -> 119
      [] c2 - c1 = -1 -> 269
      [] c2 - c1 = 0  -> 500
      [] c2 - c1 = 1  -> 731
      [] c2 - c1 = 2  -> 881

\* lines 161-162: exp(d * 0.2f) in thousandths, tabulated
expFifth(d) ==
    CASE d = -15 -> 50
      [] d = -10 -> 135
      [] d = -5  -> 368
      [] d = -1  -> 819
      [] d = 0   -> 1000
      [] d = 1   -> 1221
      [] d = 5   -> 2718

\* lines 147-148 scaled to pixels: prior_cx * inputWidth, in tenths of a pixel
priorCx(a, inputW) == ((2 * a.x + 1) * inputW * Deci) \div (2 * feat_w(a.scaleIdx, inputW))
priorCy(a, inputH) == ((2 * a.y + 1) * inputH * Deci) \div (2 * feat_h(a.scaleIdx, inputH))

\* lines 151-152 scaled to pixels: anchorSize * (k + 1)
priorSide(a) == kStrideAnchors[a.scaleIdx].baseAnchor * (a.k + 1)

\* lines 123-131
scoreFaceOf(a, confData) ==
    softmaxFace(Read(confData, a.confIdx), Read(confData, a.confIdx + 1))

\* lines 141-203: the detection of one anchor
decodeAnchor(a, locData, landmData, confData, inputW, inputH) ==
    LET dx == Read(locData, a.locIdx)
        dy == Read(locData, a.locIdx + 1)
        dw == Read(locData, a.locIdx + 2)
        dh == Read(locData, a.locIdx + 3)
        \* 0.1f * prior_w * inputWidth px = priorSide / 10 px = priorSide tenths
        cx == priorCx(a, inputW) + dx * priorSide(a)
        cy == priorCy(a, inputH) + dy * priorSide(a)
        \* w * 0.5f * inputWidth, in tenths of a pixel
        halfW == (priorSide(a) * expFifth(dw)) \div 200
        halfH == (priorSide(a) * expFifth(dh)) \div 200
        lm == [m \in 1..10 |->
                 IF m % 2 = 1
                 THEN priorCx(a, inputW) + Read(landmData, a.landmIdx + m - 1) * priorSide(a)
                 ELSE priorCy(a, inputH) + Read(landmData, a.landmIdx + m - 1) * priorSide(a)]
    IN  RetinaFaceDetection(cx - halfW, cy - halfH, cx + halfW, cy + halfH,
                            scoreFaceOf(a, confData), lm)

\* the threshold test with <= for <: an anchor at the threshold is skipped
passesStrict(a, confData, thr) == ~(scoreFaceOf(a, confData) <= thr)

\* lines 134-135: the anchor is skipped when scoreFace < confThreshold
passes(a, confData, thr) == ~(scoreFaceOf(a, confData) < thr)

RECURSIVE decodeFrom(_, _, _, _, _, _, _, _)
decodeFrom(w, i, locData, landmData, confData, inputW, inputH, thr) ==
    IF i > Len(w) THEN <<>>
    ELSE (IF passes(w[i], confData, thr)
          THEN <<decodeAnchor(w[i], locData, landmData, confData, inputW, inputH)>>
          ELSE <<>>)
         \o decodeFrom(w, i + 1, locData, landmData, confData, inputW, inputH, thr)

\* lines 68-221
decodeRetinaFace(locData, landmData, confData, inputW, inputH, thr) ==
    decodeFrom(walk(inputW, inputH), 1, locData, landmData, confData,
               inputW, inputH, thr)

\* the reads of lines 123-124, 141-144, 177-178 that fall past a buffer's end
decodeReadsPastEnd(locData, landmData, confData, inputW, inputH, thr) ==
    \E i \in 1..Len(walk(inputW, inputH)) :
        LET a == walk(inputW, inputH)[i]
        IN  \/ ReadPastEnd(confData, a.confIdx + 1)
            \/ /\ passes(a, confData, thr)
               /\ \/ ReadPastEnd(locData, a.locIdx + 3)
                  \/ ReadPastEnd(landmData, a.landmIdx + 9)

(***************************************************************************)
(* NvDsInferParseCustomRetinaFace                                          *)
(***************************************************************************)
\* struct NvDsInferObjectDetectionInfo, lines 305-311
NvDsInferObjectDetectionInfo(det) ==
    [classId |-> 0, detectionConfidence |-> det.confidence,
     left |-> det.x1, top |-> det.y1,
     width |-> det.x2 - det.x1, height |-> det.y2 - det.y1]

\* line 239
tooFewLayers(n) == n < 3

\* d[0] taken without looking at numDims
numBboxesUnchecked(numDims, d0) == d0

\* line 261
numBboxesOf(numDims, d0) == IF numDims > 0 THEN d0 ELSE 0

\* lines 289 and 300: the two filters of the output loop
skipped(det, thr) ==
    \/ det.confidence < thr
    \/ (det.x2 - det.x1) < 1 * Deci
    \/ (det.y2 - det.y1) < 1 * Deci

\* lines 285-323: what one batch item appends, each object with its batchIdx
RECURSIVE emit(_, _, _, _)
emit(dets, i, thr, batchIdx) ==
    IF i > Len(dets) THEN <<>>
    ELSE (IF skipped(dets[i], thr) THEN <<>>
          ELSE << [obj |-> NvDsInferObjectDetectionInfo(dets[i]), batchIdx |-> batchIdx] >>)
         \o emit(dets, i + 1, thr, batchIdx)

\* lines 274-276: the pointers of batch item batchIdx
locBatchData(batchIdx, numBboxes, junk)   == Pointer(locBuf, batchIdx * numBboxes * 4, junk)
landmBatchData(batchIdx, numBboxes, junk) == Pointer(landmBuf, batchIdx * numBboxes * 10, junk)
confBatchData(batchIdx, numBboxes, junk)  == Pointer(confBuf, batchIdx * numBboxes * 2, junk)

\* lines 272-324: the sequences the batch loop can append from batchIdx on
RECURSIVE batchLoop(_, _, _)
batchLoop(batchIdx, numBboxes, junk) ==
    IF batchIdx >= batchSize THEN {<<>>}
    ELSE LET dets == decodeRetinaFace(locBatchData(batchIdx, numBboxes, junk),
                                      landmBatchData(batchIdx, numBboxes, junk),
                                      confBatchData(batchIdx, numBboxes, junk),
                                      inputWidth, inputHeight, confThreshold)
         IN  UNION {{emit(kept, 1, confThreshold, batchIdx) \o rest :
                         rest \in batchLoop(batchIdx + 1, numBboxes, junk)} :
                    kept \in applyNMS(dets, nmsThreshold)}

\* whether some batch item's decode reads past the end of a buffer
batchReadsPastEnd(numBboxes, junk) ==
    \E batchIdx \in 0..(batchSize - 1) :
        decodeReadsPastEnd(locBatchData(batchIdx, numBboxes, junk),
                           landmBatchData(batchIdx, numBboxes, junk),
                           confBatchData(batchIdx, numBboxes, junk),
                           inputWidth, inputHeight, confThreshold)

\* what a read past the end of a buffer can yield, by parity of the index
JunkValues == {<<0, 0>>, <<0, 1>>, <<1, 0>>}

\* lines 239-265: the call is rejected before the batch loop
rejected == tooFewLayers(numLayers) \/ numBboxesOf(locNumDims, locD0) = 0

\* lines 238-242, 261-265: return false, nothing appended
ParseReject ==
    /\ pc = "call"
    /\ rejected
    /\ ret' = FALSE
    /\ pc' = "done"
    /\ UNCHANGED <<objectList, attrList, objBatch, oobRead>>
    /\ UNCHANGED <<nmsVars, inputVars, decodeVars, callVars>>

\* lines 267-326: the batch loop runs to its end, return true
ParseBatch ==
    /\ pc = "call"
    /\ ~rejected
    /\ \E junk \in JunkValues :
         \E appended \in batchLoop(0, numBboxesOf(locNumDims, locD0), junk) :
            /\ objectList' = objectList
                             \o [i \in 1..Len(appended) |-> appended[i].obj]
            /\ objBatch' = [i \in 1..Len(appended) |-> appended[i].batchIdx]
            /\ oobRead' = batchReadsPastEnd(numBboxesOf(locNumDims, locD0), junk)
    /\ ret' = TRUE
    /\ pc' = "done"
    /\ UNCHANGED attrList
    /\ UNCHANGED <<nmsVars, inputVars, decodeVars, callVars>>

\* lines 123, 141, 177: a read past the end of a buffer faults and the call
\* does not return
ParseFault ==
    /\ pc = "call"
    /\ ~rejected
    /\ \E junk \in JunkValues :
         batchReadsPastEnd(numBboxesOf(locNumDims, locD0), junk)
    /\ oobRead' = TRUE
    /\ pc' = "fault"
    /\ UNCHANGED <<objectList, attrList, objBatch, ret>>
    /\ UNCHANGED <<nmsVars, inputVars, decodeVars, callVars>>

(***************************************************************************)
(* Inputs                                                                  *)
(***************************************************************************)
MaxDets  == 3   \* longest list handed to applyNMS on its own
MaxHot   == 2   \* most face anchors in the buffers handed to decodeRetinaFace on its own
MaxFaces == 3   \* most face anchors in the buffers of one parser call
MaxBatch == 2   \* largest batchSize

\* what the network writes for one anchor: conf (2), loc (4), landm (10)
Zeros10 == [m \in 1..10 |-> 0]
Ramp10  == [m \in 1..10 |-> m - 5]
Background == [conf |-> <<1, 0>>, loc |-> <<0, 0, 0, 0>>, landm |-> Zeros10]
HotProfiles ==
    { [conf |-> <<0, 0>>,  loc |-> <<0, 0, 0, 0>>,      landm |-> Zeros10],
      [conf |-> <<0, 1>>,  loc |-> <<0, 0, -5, -5>>,    landm |-> Ramp10],
      [conf |-> <<-1, 1>>, loc |-> <<-10, 5, -5, -15>>, landm |-> Ramp10],
      [conf |-> <<0, 1>>,  loc |-> <<-10, 0, 0, -5>>,   landm |-> Zeros10],
      [conf |-> <<-1, 1>>, loc |-> <<0, 0, -5, -5>>,    landm |-> Zeros10] }

\* the network outputs for n anchors of which those in DOMAIN hot are faces
Outputs(n, hot) == [i \in 1..n |-> IF i \in DOMAIN hot THEN hot[i] ELSE Background]

\* the flat buffer of one field, width floats per anchor
Flat(outs, field, width) ==
    [i \in 1..(Len(outs) * width) |->
        outs[((i - 1) \div width) + 1][field][((i - 1) % width) + 1]]

HotChoices(n, most) ==
    UNION {[S -> HotProfiles] : S \in {S \in SUBSET (1..n) : Cardinality(S) <= most}}

ConfThresholds == {500, 800}

NmsIdle ==
    /\ detections = <<>>
    /\ nmsDetections = <<>>
    /\ nmsAgain = <<>>

DecodeIdle ==
    /\ decoded = <<>>
    /\ visited = 0

CallIdle ==
    /\ numLayers = 0
    /\ locNumDims = 0
    /\ locD0 = 0
    /\ batchSize = 0
    /\ objectList0 = <<>>
    /\ attrList0 = <<>>

OutIdle ==
    /\ objectList = objectList0
    /\ attrList = attrList0
    /\ objBatch = <<>>
    /\ oobRead = FALSE
    /\ ret = "none"

(***************************************************************************)
(* SpecNMS: applyNMS on a list, then on its own result                     *)
(***************************************************************************)
NmsBoxes ==
    {<<x1, 0, x2, 1>> : x1 \in 0..2, x2 \in 0..2} \ {<<2, 0, 0, 1>>, <<2, 0, 1, 1>>, <<1, 0, 0, 1>>}
NmsConfidences == {500, 900}
NmsInputs ==
    {RetinaFaceDetection(b[1], b[2], b[3], b[4], c, NoLandmarks) :
        b \in NmsBoxes, c \in NmsConfidences}
NmsThresholds == {-100, 0, 500}

InitNMS ==
    /\ \E n \in 0..MaxDets : detections \in [1..n -> NmsInputs]
    /\ nmsThreshold \in NmsThresholds
    /\ nmsDetections = <<>>
    /\ nmsAgain = <<>>
    /\ confThreshold = 0 /\ inputWidth = 0 /\ inputHeight = 0
    /\ locBuf = <<>> /\ landmBuf = <<>> /\ confBuf = <<>>
    /\ DecodeIdle /\ CallIdle /\ OutIdle
    /\ pc = "nms0"

CallNMS ==
    /\ pc = "nms0"
    /\ nmsDetections' \in applyNMS(detections, nmsThreshold)
    /\ pc' = "nms1"
    /\ UNCHANGED <<detections, nmsAgain, inputVars, decodeVars, callVars, outVars>>

CallNMSAgain ==
    /\ pc = "nms1"
    /\ nmsAgain' \in applyNMS(nmsDetections, nmsThreshold)
    /\ pc' = "nms2"
    /\ UNCHANGED <<detections, nmsDetections, inputVars, decodeVars, callVars, outVars>>

NextNMS == CallNMS \/ CallNMSAgain
SpecNMS == InitNMS /\ [][NextNMS]_vars

(***************************************************************************)
(* SpecGrid: the loop nest of decodeRetinaFace over input sizes            *)
(***************************************************************************)
GridDims == {1, 7, 8, 9, 12, 16, 24, 31, 32, 33, 40, 640}

InitGrid ==
    /\ inputWidth \in GridDims
    /\ inputHeight \in GridDims
    /\ nmsThreshold = 0 /\ confThreshold = 0
    /\ locBuf = <<>> /\ landmBuf = <<>> /\ confBuf = <<>>
    /\ NmsIdle /\ DecodeIdle /\ CallIdle /\ OutIdle
    /\ pc = "grid0"

\* lines 86-116 and 208-211: the iterations of the loop nest
WalkGrid ==
    /\ pc = "grid0"
    /\ visited' = Len(walk(inputWidth, inputHeight))
    /\ pc' = "grid1"
    /\ UNCHANGED <<decoded, nmsVars, inputVars, callVars, outVars>>

NextGrid == WalkGrid
SpecGrid == InitGrid /\ [][NextGrid]_vars

(***************************************************************************)
(* SpecDecode: decodeRetinaFace on buffers that hold every anchor          *)
(***************************************************************************)
DecodeDims == {8, 12, 16}

InitDecode ==
    /\ inputWidth \in DecodeDims
    /\ inputHeight \in DecodeDims
    /\ confThreshold \in ConfThresholds
    /\ \E n \in {Len(walk(inputWidth, inputHeight))} :
         \E hot \in HotChoices(n, MaxHot) :
            \E outs \in {Outputs(n, hot)} :
               /\ locBuf = Flat(outs, "loc", 4)
               /\ landmBuf = Flat(outs, "landm", 10)
               /\ confBuf = Flat(outs, "conf", 2)
    /\ nmsThreshold = 0
    /\ NmsIdle /\ DecodeIdle /\ CallIdle /\ OutIdle
    /\ pc = "dec0"

CallDecode ==
    /\ pc = "dec0"
    /\ decoded' = decodeRetinaFace(Pointer(locBuf, 0, <<0, 0>>),
                                   Pointer(landmBuf, 0, <<0, 0>>),
                                   Pointer(confBuf, 0, <<0, 0>>),
                                   inputWidth, inputHeight, confThreshold)
    /\ visited' = Len(walk(inputWidth, inputHeight))
    /\ pc' = "dec1"
    /\ UNCHANGED <<nmsVars, inputVars, callVars, outVars>>

NextDecode == CallDecode
SpecDecode == InitDecode /\ [][NextDecode]_vars

(***************************************************************************)
(* SpecParse: one call of NvDsInferParseCustomRetinaFace                   *)
(***************************************************************************)
ParseDim == 8

\* the layer descriptions a call can come with: number of layers, numDims and
\* d[0] of the loc layer, and whether the loc buffer is one float short
LayerShapes ==
    LET n == Len(walk(ParseDim, ParseDim))
    IN  { [layers |-> 3, numDims |-> 2, d0 |-> n,     short |-> FALSE],
          [layers |-> 2, numDims |-> 2, d0 |-> n,     short |-> FALSE],
          [layers |-> 3, numDims |-> 0, d0 |-> n,     short |-> FALSE],
          [layers |-> 3, numDims |-> 2, d0 |-> 0,     short |-> FALSE],
          [layers |-> 3, numDims |-> 2, d0 |-> n - 1, short |-> FALSE],
          [layers |-> 3, numDims |-> 2, d0 |-> n - 1, short |-> TRUE] }

Earlier == [classId |-> 0, detectionConfidence |-> 900,
            left |-> 10, top |-> 10, width |-> 20, height |-> 20]

InitParse ==
    /\ inputWidth = ParseDim
    /\ inputHeight = ParseDim
    /\ confThreshold \in ConfThresholds
    /\ nmsThreshold = 200
    /\ batchSize \in 0..MaxBatch
    /\ \E sh \in LayerShapes :
         /\ numLayers = sh.layers
         /\ locNumDims = sh.numDims
         /\ locD0 = sh.d0
         /\ \E hot \in HotChoices(batchSize * sh.d0, MaxFaces) :
              \E outs \in {Outputs(batchSize * sh.d0, hot)} :
                 /\ locBuf = IF sh.short /\ outs # <<>>
                             THEN SubSeq(Flat(outs, "loc", 4), 1, Len(outs) * 4 - 1)
                             ELSE Flat(outs, "loc", 4)
                 /\ landmBuf = Flat(outs, "landm", 10)
                 /\ confBuf = Flat(outs, "conf", 2)
    /\ objectList0 \in {<<>>, <<Earlier>>}
    /\ attrList0 = <<>>
    /\ NmsIdle /\ DecodeIdle /\ OutIdle
    /\ pc = "call"

NextParse == ParseReject \/ ParseBatch \/ ParseFault
SpecParse == InitParse /\ [][NextParse]_vars

(***************************************************************************)
(* Properties                                                              *)
(***************************************************************************)
\* IoU of a and b is at most thr.  The quotient of line 58 where its
\* denominator is not 0; 0 where both areas are 0 (the value the
\* specification of the suppressor gives the pair).
iouAtMost(a, b, thr) ==
    LET q == iouOf(a, b)
    IN  IF q.den > 0 THEN q.num * Milli <= thr * q.den
        ELSE IF q.den < 0 THEN q.num * Milli >= thr * q.den
        ELSE q.num = 0 /\ 0 <= thr

\* C1: any two distinct detections of the list applyNMS returns have IoU at
\* most the threshold, for every input list and every threshold.
C1_KeptPairsWithinThreshold ==
    pc \in {"nms1", "nms2"} =>
        \A i, j \in 1..Len(nmsDetections) :
            i < j => iouAtMost(nmsDetections[i], nmsDetections[j], nmsThreshold)

\* C2: applyNMS is idempotent: applied to its own result with the same
\* threshold it returns the identical list, same elements in the same order.
C2_Idempotent ==
    pc = "nms2" => nmsAgain = nmsDetections

\* the stable descending sort: among equal confidences, input order
RECURSIVE StableSort(_)
StableSort(s) ==
    IF s = <<>> THEN <<>>
    ELSE LET i == CHOOSE i \in 1..Len(s) :
                    /\ \A j \in 1..Len(s) : s[j].confidence <= s[i].confidence
                    /\ \A j \in 1..(i - 1) : s[j].confidence < s[i].confidence
         IN  <<s[i]>> \o StableSort(RemoveAt(s, i))

\* C10: equal-confidence detections are processed in input order (the sort is
\* stable), so the result is the greedy pass over the stably sorted input and
\* is a function of the input list.
C10_StableTieOrder ==
    pc \in {"nms1", "nms2"} =>
        nmsDetections = nmsLoop(StableSort(detections), nmsThreshold, 1, {}, <<>>)

\* the anchors of level scaleIdx and of the levels before it
anchorsOfLevel(scaleIdx) == featSize(scaleIdx, inputWidth, inputHeight) * anchorCount
anchorsBefore(scaleIdx) ==
    IF scaleIdx = 1 THEN 0
    ELSE IF scaleIdx = 2 THEN anchorsOfLevel(1)
    ELSE anchorsOfLevel(1) + anchorsOfLevel(2)

\* anchor n (from 0), counting by scale level, then row-major cell, then
\* anchor within the cell; it owns conf[2n..], loc[4n..] and landm[10n..]
anchorNumber(n) ==
    LET scaleIdx == CHOOSE l \in 1..3 :
                        anchorsBefore(l) <= n /\ n < anchorsBefore(l) + anchorsOfLevel(l)
        cell == (n - anchorsBefore(scaleIdx)) \div 2
    IN  [scaleIdx |-> scaleIdx,
         x |-> cell % (inputWidth \div kStrideAnchors[scaleIdx].stride),
         y |-> cell \div (inputWidth \div kStrideAnchors[scaleIdx].stride),
         k |-> (n - anchorsBefore(scaleIdx)) % 2,
         confIdx |-> 2 * n, locIdx |-> 4 * n, landmIdx |-> 10 * n]

faceProbability(n) == softmaxFace(confBuf[2 * n + 1], confBuf[2 * n + 2])

RECURSIVE detectionsFrom(_)
detectionsFrom(n) ==
    IF n >= anchorsBefore(3) + anchorsOfLevel(3) THEN <<>>
    ELSE (IF faceProbability(n) >= confThreshold
          THEN <<decodeAnchor(anchorNumber(n), Pointer(locBuf, 0, <<0, 0>>),
                              Pointer(landmBuf, 0, <<0, 0>>), Pointer(confBuf, 0, <<0, 0>>),
                              inputWidth, inputHeight)>>
          ELSE <<>>)
         \o detectionsFrom(n + 1)

ceilDiv(a, b) == (a + b - 1) \div b

\* C4: for every positive input size the decoder walks ceil(H/step) rows and
\* ceil(W/step) columns of 2 anchors at steps 8, 16 and 32; 640x640 gives 16800.
C4_CeilGrid ==
    pc = "grid1" =>
        /\ visited = ceilDiv(inputHeight, 8) * ceilDiv(inputWidth, 8) * 2
                     + ceilDiv(inputHeight, 16) * ceilDiv(inputWidth, 16) * 2
                     + ceilDiv(inputHeight, 32) * ceilDiv(inputWidth, 32) * 2
        /\ (inputWidth = 640 /\ inputHeight = 640) => visited = 16800

\* the objects the call appended: objectList past what it held at entry
appended == SubSeq(objectList, Len(objectList0) + 1, Len(objectList))

\* the anchor count the loc layer declares
declaredAnchors == IF locNumDims > 0 THEN locD0 ELSE 0

\* a buffer's length disagrees with the declared anchor count, or the
\* declared count with the anchors the decoder walks
lengthMismatch ==
    \/ Len(locBuf) # batchSize * declaredAnchors * 4
    \/ Len(landmBuf) # batchSize * declaredAnchors * 10
    \/ Len(confBuf) # batchSize * declaredAnchors * 2
    \/ declaredAnchors # anchorsBefore(3) + anchorsOfLevel(3)

\* C5: every object the parser appends lies inside the image: 0 <= left,
\* 0 <= top, left + width <= inputWidth - 1, top + height <= inputHeight - 1
\* (stated of the calls whose buffers hold what the layers declare).
C5_ObjectsInsideImage ==
    (pc = "done" /\ ~lengthMismatch) =>
        \A i \in 1..Len(appended) :
            /\ 0 <= appended[i].left
            /\ 0 <= appended[i].top
            /\ appended[i].left + appended[i].width <= (inputWidth - 1) * Deci
            /\ appended[i].top + appended[i].height <= (inputHeight - 1) * Deci

clipTo(v, size) == Max(0, Min(v, (size - 1) * Deci))

\* C6: the degenerate-box filter acts on the box as clipped to the image: no
\* appended object has, after clipping its corners to the image, a width or a
\* height below 1 pixel; in particular width >= 1 and height >= 1
\* (stated of the calls whose buffers hold what the layers declare).
C6_FilterAfterClipping ==
    (pc = "done" /\ ~lengthMismatch) =>
        \A i \in 1..Len(appended) :
            /\ clipTo(appended[i].left + appended[i].width, inputWidth)
                 - clipTo(appended[i].left, inputWidth) >= 1 * Deci
            /\ clipTo(appended[i].top + appended[i].height, inputHeight)
                 - clipTo(appended[i].top, inputHeight) >= 1 * Deci
            /\ appended[i].width >= 1 * Deci
            /\ appended[i].height >= 1 * Deci

\* C7: the parser returns false when fewer than 3 layers are supplied or the
\* loc layer declares 0 anchors, and whenever it returns false objectList and
\* attrList are as they were at call entry.
C7_RejectedCallsAppendNothing ==
    /\ (pc # "call" /\ (numLayers < 3 \/ declaredAnchors = 0)) =>
           pc = "done" /\ ret = FALSE
    /\ (pc = "done" /\ ret = FALSE) =>
           objectList = objectList0 /\ attrList = attrList0

\* a call with three layers, a loc layer of no dimensions, a non-empty
\* objectList and buffers that hold a face above the threshold, returned false
C7_Witness ==
    /\ pc = "done" /\ ret = FALSE
    /\ numLayers = 3 /\ locNumDims = 0
    /\ batchSize > 0
    /\ objectList0 # <<>>
    /\ Len(confBuf) >= 2 /\ Len(locBuf) >= 4
    /\ faceProbability(0) >= confThreshold
    /\ locBuf[3] = 0 /\ locBuf[4] = 0

\* C8: a call (of at least one batch item) whose buffer lengths disagree with
\* the anchor count times the per-anchor stride, or whose declared count
\* differs from the anchors the decoder walks, returns false and appends
\* nothing; no buffer is read at or past its length.
C8_MismatchRejected ==
    /\ (pc # "call" /\ batchSize > 0 /\ lengthMismatch) =>
           pc = "done" /\ ret = FALSE /\ objectList = objectList0
    /\ ~oobRead

====
